---- MODULE Spec2Model ----
(***************************************************************************)
(* Tool-call translation and dispatch layer of the OpenAI wrapper:         *)
(*   tools.py         ToolType, CLAUDE_TOOLS, ToolRegistry (tool_registry) *)
(*   tool_handler.py  ToolHandler (should_enable_tools, get_tool_config,   *)
(*                    _map_function_to_tool, inject_tool_context,          *)
(*                    extract_tool_calls_from_message,                     *)
(*                    format_tool_response)                                *)
(* Python values are modelled as follows: a str is a string, a list is a   *)
(* sequence, a set is a set, Optional[list] is a record                    *)
(* [isNone, list], a missing dict key read with .get() is the string       *)
(* "None" (names) or "absent" (flags).                                     *)
(***************************************************************************)
EXTENDS Integers, Sequences, FiniteSets, TLC

VARIABLES
    enabled_tools,  \* tool_registry.enabled_tools: set of ToolType members
    op,             \* name of the last operation that ran
    after,          \* for get_enabled_tools: the operation that ran before it
    names,          \* argument of the last registry call (Optional[List[str]])
    last_request,   \* argument of the last resolver call (request dict)
    active,         \* value returned by the last should_enable_tools call
    config,         \* allowed_tools returned by the last get_tool_config call
    listed,         \* value returned by the last get_enabled_tools call
    changed,        \* whether the last operation changed enabled_tools
    raised,         \* whether the last operation raised an exception
    fname,          \* argument of the last _map_function_to_tool call
    mapped,         \* value returned by the last _map_function_to_tool call
    version,        \* number of times the attribute enabled_tools was rebound
    pc,             \* per thread: position inside its registry call
    tcall,          \* per thread: the call it runs, [op, names]
    todo,           \* per thread: names of its loop not yet processed
    loaded,         \* per thread: version of the set object it has loaded
    fn,             \* the ToolHandler function a conversation turn calls
    arg,            \* the arguments it is called with
    ret,            \* the value it returned
    done            \* whether it has returned

vars == <<enabled_tools, op, after, names, last_request, active, config, listed,
          changed, raised, fname, mapped, version, pc, tcall, todo, loaded,
          fn, arg, ret, done>>

callVars == <<fn, arg, ret, done>>
seqVars == <<op, after, names, last_request, active, config, listed, changed,
             raised, fname, mapped, callVars>>
thrVars == <<version, pc, tcall, todo, loaded>>

----------------------------------------------------------------------------
(* Bounds of the model *)

\* longest list of names passed to enable_tools/disable_tools/set_allowed_tools
MaxNames == 2
\* longest `tools` array of a request
MaxTools == 2

----------------------------------------------------------------------------
(* Python values *)

None == [isNone |-> TRUE, list |-> <<>>]
Some(l) == [isNone |-> FALSE, list |-> l]

\* bool(x) of an Optional[list]: None and [] are falsy
Truthy(x) == ~x.isNone /\ x.list # <<>>

Range(s) == {s[i] : i \in 1..Len(s)}

SeqsUpTo(S, n) == UNION {[1..k -> S] : k \in 0..n}

RECURSIVE IsSubseq(_, _)
\* s can be obtained from t by deleting elements (order kept)
IsSubseq(s, t) ==
    IF s = <<>> THEN TRUE
    ELSE IF t = <<>> THEN FALSE
    ELSE IF Head(s) = Head(t) THEN IsSubseq(Tail(s), Tail(t))
    ELSE IsSubseq(s, Tail(t))

----------------------------------------------------------------------------
(* tools.py: the catalogue *)

\* class ToolType(str, Enum): the member values, in definition order
ToolType ==
    << "read", "write", "edit", "bash", "search", "grep", "ls", "cd",
       "web_search", "web_fetch", "todo_read", "todo_write",
       "git", "docker", "kubectl" >>

ToolTypes == Range(ToolType)

\* CLAUDE_TOOLS: dict ToolType -> Tool, in insertion order; each entry is
\* its key and its function.name
CLAUDE_TOOLS ==
    << [type |-> "read",       name |-> "read_file"],
       [type |-> "write",      name |-> "write_file"],
       [type |-> "edit",       name |-> "edit_file"],
       [type |-> "bash",       name |-> "run_command"],
       [type |-> "search",     name |-> "search_files"],
       [type |-> "grep",       name |-> "search_in_files"],
       [type |-> "ls",         name |-> "list_directory"],
       [type |-> "web_search", name |-> "web_search"],
       [type |-> "web_fetch",  name |-> "fetch_url"] >>

CatalogueTypes == {e.type : e \in Range(CLAUDE_TOOLS)}
CatalogueNames == {e.name : e \in Range(CLAUDE_TOOLS)}

\* ToolType(tool_name): lookup of an enum member by value; ValueError if
\* no member has that value
ToolTypeLookup(tool_name) ==
    IF tool_name \in ToolTypes
    THEN [ok |-> TRUE, member |-> tool_name]
    ELSE [ok |-> FALSE, member |-> "ValueError"]

----------------------------------------------------------------------------
(* tools.py: ToolRegistry *)

\* ToolRegistry.__init__: all tools enabled by default
InitialEnabled == ToolTypes

\* Enabled tools listed in reverse catalogue order
get_enabled_tools_reversed(enabled) ==
    LET n == Len(CLAUDE_TOOLS)
        rev == [i \in 1..n |-> CLAUDE_TOOLS[n + 1 - i]]
    IN SelectSeq(rev, LAMBDA e : e.type \in enabled)

\* ToolRegistry.get_enabled_tools: the catalogue entries whose key is in
\* enabled_tools, in the catalogue's order
get_enabled_tools(enabled) ==
    SelectSeq(CLAUDE_TOOLS, LAMBDA e : e.type \in enabled)

\* Loop body without the try/except: the ValueError leaves the call
EnableOneUncaught(st, tool_name) ==
    LET r == ToolTypeLookup(tool_name) IN
    IF st.raised THEN st
    ELSE IF r.ok THEN [st EXCEPT !.enabled = st.enabled \cup {r.member}]
    ELSE [st EXCEPT !.raised = TRUE]

\* One iteration of the loop of enable_tools: add the member, or log a
\* warning on ValueError and go on.  st = [enabled, raised]
EnableOne(st, tool_name) ==
    LET r == ToolTypeLookup(tool_name) IN
    IF st.raised THEN st
    ELSE IF r.ok THEN [st EXCEPT !.enabled = st.enabled \cup {r.member}]
    ELSE st

\* One iteration of the loop of disable_tools: discard the member, or log
\* a warning on ValueError and go on
DisableOne(st, tool_name) ==
    LET r == ToolTypeLookup(tool_name) IN
    IF st.raised THEN st
    ELSE IF r.ok THEN [st EXCEPT !.enabled = st.enabled \ {r.member}]
    ELSE st

RECURSIVE enable_tools(_, _)
\* ToolRegistry.enable_tools(tools): for tool_name in tools
enable_tools(st, tools) ==
    IF tools = <<>> THEN st
    ELSE enable_tools(EnableOne(st, Head(tools)), Tail(tools))

RECURSIVE disable_tools(_, _)
\* ToolRegistry.disable_tools(tools): for tool_name in tools
disable_tools(st, tools) ==
    IF tools = <<>> THEN st
    ELSE disable_tools(DisableOne(st, Head(tools)), Tail(tools))

\* set_allowed_tools that enables the listed tools without clearing first
set_allowed_tools_keeping(st, tools) ==
    IF tools.isNone
    THEN [st EXCEPT !.enabled = ToolTypes]
    ELSE enable_tools(st, tools.list)

\* ToolRegistry.set_allowed_tools(tools): None enables every ToolType
\* member; a list empties the set and enables the listed tools
set_allowed_tools(st, tools) ==
    IF tools.isNone
    THEN [st EXCEPT !.enabled = ToolTypes]
    ELSE enable_tools([st EXCEPT !.enabled = {}], tools.list)

----------------------------------------------------------------------------
(* tool_handler.py: ToolHandler *)

\* the dict `mappings` of _map_function_to_tool, in source order
mappings ==
    << [function_name |-> "read_file",       tool |-> "Read"],
       [function_name |-> "write_file",      tool |-> "Write"],
       [function_name |-> "edit_file",       tool |-> "Edit"],
       [function_name |-> "run_command",     tool |-> "Bash"],
       [function_name |-> "search_files",    tool |-> "Glob"],
       [function_name |-> "search_in_files", tool |-> "Grep"],
       [function_name |-> "list_directory",  tool |-> "LS"],
       [function_name |-> "web_search",      tool |-> "WebSearch"],
       [function_name |-> "fetch_url",       tool |-> "WebFetch"],
       [function_name |-> "read_todo",       tool |-> "TodoRead"],
       [function_name |-> "write_todo",      tool |-> "TodoWrite"] >>

MappedNames == {m.function_name : m \in Range(mappings)}

\* ToolHandler._map_function_to_tool: mappings.get(function_name); the
\* string "None" stands for Python's None
map_function_to_tool(function_name) ==
    IF function_name \in MappedNames
    THEN (CHOOSE m \in Range(mappings) : m.function_name = function_name).tool
    ELSE "None"

\* bool(request.get("enable_tools", False))
FlagSet(request) == request.enable_tools = "True"

\* should_enable_tools without the test of the legacy `functions` field
should_enable_tools_no_legacy(request) ==
    IF FlagSet(request) THEN TRUE
    ELSE IF Truthy(request.tools) THEN TRUE
    ELSE FALSE

\* ToolHandler.should_enable_tools
should_enable_tools(request) ==
    IF FlagSet(request) THEN TRUE
    ELSE IF Truthy(request.tools) THEN TRUE
    ELSE IF Truthy(request.functions) THEN TRUE
    ELSE FALSE

RECURSIVE AllowedFrom(_)
\* the loop of get_tool_config over request["tools"]: entries of type
\* "function" whose function name has a mapping append the mapped name
AllowedFrom(tools) ==
    IF tools = <<>> THEN <<>>
    ELSE LET tool == Head(tools)
             claude_tool == map_function_to_tool(tool.name)
         IN IF tool.type = "function" /\ claude_tool # "None"
            THEN <<claude_tool>> \o AllowedFrom(Tail(tools))
            ELSE AllowedFrom(Tail(tools))

\* get_tool_config that tests the enable_tools flag before the tools array
get_tool_config_flag_first(request) ==
    IF FlagSet(request) THEN None
    ELSE IF Truthy(request.tools) THEN Some(AllowedFrom(request.tools.list))
    ELSE Some(<<>>)

\* get_tool_config that treats the legacy `functions` field as a tools array
get_tool_config_legacy_first(request) ==
    IF Truthy(request.tools) THEN Some(AllowedFrom(request.tools.list))
    ELSE IF Truthy(request.functions)
    THEN Some(AllowedFrom([i \in 1..Len(request.functions.list) |->
                  [type |-> "function", name |-> request.functions.list[i].name]]))
    ELSE IF FlagSet(request) THEN None
    ELSE Some(<<>>)

\* ToolHandler.get_tool_config: the allowed_tools it returns (the
\* disallowed_tools it returns is None on every path)
get_tool_config(request) ==
    IF Truthy(request.tools) THEN Some(AllowedFrom(request.tools.list))
    ELSE IF FlagSet(request) THEN None
    ELSE Some(<<>>)

----------------------------------------------------------------------------
(* Inputs *)

\* names passed to the registry: a member value that has a catalogue entry,
\* a member value that is also a function name, a function name that is no
\* member value, and a name that is neither
RegistryNames == {"read", "web_search", "read_file", "bogus"}

NameLists == SeqsUpTo(RegistryNames, MaxNames)

NameArgs == {None} \cup {Some(l) : l \in NameLists}

\* names passed to the registry by the two threads
ThreadNameLists == SeqsUpTo({"read", "web_search", "bogus"}, MaxNames)

\* entries of a `tools` array: two mapped function names, an unmapped one,
\* and an entry whose type is not "function"
ToolDefs ==
    { [type |-> "function",  name |-> "read_file"],
      [type |-> "function",  name |-> "run_command"],
      [type |-> "function",  name |-> "bogus"],
      [type |-> "retrieval", name |-> "read_file"] }

\* entries of a legacy `functions` list
FunctionDefs == { [name |-> "read_file"] }

Requests ==
    [ tools        : {None} \cup {Some(l) : l \in SeqsUpTo(ToolDefs, MaxTools)},
      enable_tools : {"absent", "False", "True"},
      functions    : {None, Some(<<>>)} \cup {Some(<<f>>) : f \in FunctionDefs} ]

\* requests resolved while the registry is being changed
SharedRequests ==
    {r \in Requests : \A i \in 1..Len(r.tools.list) :
        r.tools.list[i].type = "function" /\ r.tools.list[i].name # "run_command"}

\* arguments of _map_function_to_tool
FunctionNames == CatalogueNames \cup MappedNames \cup {"bogus", "None"}

NoRequest == [tools |-> None, enable_tools |-> "absent", functions |-> None]

Threads == {1, 2}

----------------------------------------------------------------------------
(* The program, one call at a time *)

IdleThreads ==
    /\ version = 0
    /\ pc = [t \in Threads |-> "idle"]
    /\ tcall = [t \in Threads |-> [op |-> "none", names |-> None]]
    /\ todo = [t \in Threads |-> <<>>]
    /\ loaded = [t \in Threads |-> 0]

\* no ToolHandler function of a conversation turn is being called
NoCall ==
    /\ fn = "none"
    /\ arg = <<>>
    /\ ret = <<>>
    /\ done = FALSE

\* values of the result variables an operation does not set
Blank(vs) ==
    /\ ("after" \in vs     \/ after' = "none")
    /\ ("names" \in vs     \/ names' = None)
    /\ ("request" \in vs   \/ last_request' = NoRequest)
    /\ ("active" \in vs    \/ active' = FALSE)
    /\ ("config" \in vs    \/ config' = None)
    /\ ("listed" \in vs    \/ listed' = <<>>)
    /\ ("fname" \in vs     \/ fname' = "None")
    /\ ("mapped" \in vs    \/ mapped' = "None")
    /\ UNCHANGED callVars

Init ==
    /\ enabled_tools = InitialEnabled
    /\ op = "init"
    /\ after = "none"
    /\ names = None
    /\ last_request = NoRequest
    /\ active = FALSE
    /\ config = None
    /\ listed = <<>>
    /\ changed = FALSE
    /\ raised = FALSE
    /\ fname = "None"
    /\ mapped = "None"
    /\ IdleThreads
    /\ NoCall

\* the registry after a call that left it in st = [enabled, raised]
Returns(st) ==
    /\ enabled_tools' = st.enabled
    /\ raised' = st.raised
    /\ changed' = (st.enabled # enabled_tools)
    /\ Blank({"names"})
    /\ UNCHANGED thrVars

Self == [enabled |-> enabled_tools, raised |-> FALSE]

\* tool_registry.enable_tools(l)
EnableTools(l) ==
    /\ op' = "enable_tools"
    /\ names' = Some(l)
    /\ Returns(enable_tools(Self, l))

\* tool_registry.disable_tools(l)
DisableTools(l) ==
    /\ op' = "disable_tools"
    /\ names' = Some(l)
    /\ Returns(disable_tools(Self, l))

\* tool_registry.set_allowed_tools(a)
SetAllowedTools(a) ==
    /\ op' = "set_allowed_tools"
    /\ names' = a
    /\ Returns(set_allowed_tools(Self, a))

\* tool_registry.get_enabled_tools(); names and changed keep describing
\* the call that ran before it
GetEnabledTools ==
    /\ op' = "get_enabled_tools"
    /\ after' = (IF op = "get_enabled_tools" THEN after ELSE op)
    /\ listed' = get_enabled_tools(enabled_tools)
    /\ raised' = FALSE
    /\ Blank({"after", "names", "listed"})
    /\ UNCHANGED <<enabled_tools, names, changed>>
    /\ UNCHANGED thrVars

\* get_tool_config that applies the allow-list it computed to the registry
GetToolConfigApplying(req) ==
    LET allowed == get_tool_config(req)
        st == set_allowed_tools(Self, allowed)
    IN /\ op' = "get_tool_config"
       /\ last_request' = req
       /\ config' = allowed
       /\ enabled_tools' = st.enabled
       /\ changed' = (st.enabled # enabled_tools)
       /\ raised' = FALSE
       /\ Blank({"request", "config"})
       /\ UNCHANGED thrVars

\* tool_handler.should_enable_tools(req)
ShouldEnableTools(req) ==
    /\ op' = "should_enable_tools"
    /\ last_request' = req
    /\ active' = should_enable_tools(req)
    /\ changed' = FALSE
    /\ raised' = FALSE
    /\ Blank({"request", "active"})
    /\ UNCHANGED enabled_tools
    /\ UNCHANGED thrVars

\* tool_handler.get_tool_config(req)
GetToolConfig(req) ==
    /\ op' = "get_tool_config"
    /\ last_request' = req
    /\ config' = get_tool_config(req)
    /\ changed' = FALSE
    /\ raised' = FALSE
    /\ Blank({"request", "config"})
    /\ UNCHANGED enabled_tools
    /\ UNCHANGED thrVars

\* tool_handler._map_function_to_tool(n)
MapFunctionToTool(n) ==
    /\ op' = "_map_function_to_tool"
    /\ fname' = n
    /\ mapped' = map_function_to_tool(n)
    /\ changed' = FALSE
    /\ raised' = FALSE
    /\ Blank({"fname", "mapped"})
    /\ UNCHANGED enabled_tools
    /\ UNCHANGED thrVars

Next ==
    \/ \E l \in NameLists : EnableTools(l)
    \/ \E l \in NameLists : DisableTools(l)
    \/ \E a \in NameArgs : SetAllowedTools(a)
    \/ GetEnabledTools
    \/ \E req \in SharedRequests : ShouldEnableTools(req)
    \/ \E req \in SharedRequests : GetToolConfig(req)

\* registry calls and policy resolution of requests, in any order
Spec == Init /\ [][Next]_vars

NextResolver ==
    \/ \E req \in Requests : ShouldEnableTools(req)
    \/ \E req \in Requests : GetToolConfig(req)
    \/ \E n \in FunctionNames : MapFunctionToTool(n)

\* the request policy resolver and the name mapper on every request
SpecResolver == Init /\ [][NextResolver]_vars

----------------------------------------------------------------------------
(* The registry called from two threads.  A thread runs one call, one      *)
(* step per access to tool_registry.enabled_tools: binding the attribute   *)
(* to a new set, loading the attribute inside the loop, and the add or     *)
(* discard on the set object that was loaded.  A set object that is no     *)
(* longer bound to the attribute is unreachable; `version` counts the      *)
(* rebindings, so a loaded object is the current one iff its version is.   *)

ThreadCalls ==
    [op : {"enable_tools", "disable_tools"}, names : {Some(l) : l \in ThreadNameLists}]
    \cup [op : {"set_allowed_tools"}, names : {None} \cup {Some(l) : l \in ThreadNameLists}]

\* the thread enters its call
Begin(t, c) ==
    /\ pc[t] = "idle"
    /\ tcall' = [tcall EXCEPT ![t] = c]
    /\ todo' = [todo EXCEPT ![t] = c.names.list]
    /\ pc' = [pc EXCEPT ![t] = IF c.op = "set_allowed_tools" THEN "bind" ELSE "loop"]
    /\ UNCHANGED <<enabled_tools, version, loaded>>
    /\ UNCHANGED seqVars

\* set_allowed_tools: self.enabled_tools = set(ToolType) or = set()
Bind(t) ==
    /\ pc[t] = "bind"
    /\ enabled_tools' = (IF tcall[t].names.isNone THEN ToolTypes ELSE {})
    /\ version' = version + 1
    /\ pc' = [pc EXCEPT ![t] = IF tcall[t].names.isNone THEN "done" ELSE "loop"]
    /\ UNCHANGED <<tcall, todo, loaded>>
    /\ UNCHANGED seqVars

\* for tool_name in tools: ToolType(tool_name), then load self.enabled_tools;
\* on ValueError log a warning and take the next name
Load(t) ==
    /\ pc[t] = "loop"
    /\ IF todo[t] = <<>>
       THEN /\ pc' = [pc EXCEPT ![t] = "done"]
            /\ UNCHANGED <<todo, loaded>>
       ELSE IF ToolTypeLookup(Head(todo[t])).ok
       THEN /\ loaded' = [loaded EXCEPT ![t] = version]
            /\ pc' = [pc EXCEPT ![t] = "apply"]
            /\ UNCHANGED todo
       ELSE /\ todo' = [todo EXCEPT ![t] = Tail(todo[t])]
            /\ UNCHANGED <<pc, loaded>>
    /\ UNCHANGED <<enabled_tools, version, tcall>>
    /\ UNCHANGED seqVars

\* .add(tool_type) or .discard(tool_type) on the set object that was loaded
Apply(t) ==
    /\ pc[t] = "apply"
    /\ LET member == ToolTypeLookup(Head(todo[t])).member
       IN enabled_tools' =
            IF loaded[t] # version THEN enabled_tools
            ELSE IF tcall[t].op = "disable_tools" THEN enabled_tools \ {member}
            ELSE enabled_tools \cup {member}
    /\ todo' = [todo EXCEPT ![t] = Tail(todo[t])]
    /\ pc' = [pc EXCEPT ![t] = "loop"]
    /\ UNCHANGED <<version, tcall, loaded>>
    /\ UNCHANGED seqVars

NextConc ==
    \/ \E t \in Threads, c \in ThreadCalls : Begin(t, c)
    \/ \E t \in Threads : Bind(t)
    \/ \E t \in Threads : Load(t)
    \/ \E t \in Threads : Apply(t)

\* two threads, each running one registry call on the shared tool_registry
SpecConc == Init /\ [][NextConc]_vars

----------------------------------------------------------------------------
(* Properties of the request policy resolver (SpecResolver) *)

\* the names the mapper resolves from the function-typed entries of a
\* tools array, in the array's order, entries without a mapping left out
ResolvedNames(tools) ==
    LET sel == SelectSeq(tools, LAMBDA t : t.type = "function" /\ t.name \in MappedNames)
    IN [i \in 1..Len(sel) |-> map_function_to_tool(sel[i].name)]

\* the function names of a legacy list, as entries of a tools array
AsTools(functions) ==
    [i \in 1..Len(functions) |-> [type |-> "function", name |-> functions[i].name]]

NoneSet(r) == ~Truthy(r.tools) /\ ~FlagSet(r) /\ ~Truthy(r.functions)

\* C1: for a request whose tools array is non-empty, get_tool_config
\* returns as allow-list exactly the names the mapper resolves from the
\* listed function names, in request order, unmapped names dropped,
\* whatever enable_tools and functions are.
C1_ToolsCaseWins ==
    (op = "get_tool_config" /\ Truthy(last_request.tools)) =>
        config = Some(ResolvedNames(last_request.tools.list))

\* a tools array listing run_command then read_file is resolved to Bash
\* then Read although enable_tools is true and functions is non-empty
C1_Witness ==
    /\ op = "get_tool_config"
    /\ last_request.enable_tools = "True"
    /\ Truthy(last_request.functions)
    /\ Len(last_request.tools.list) = 2
    /\ config = Some(<<"Bash", "Read">>)

\* C2: for a request with no tools, no true enable_tools flag and a
\* non-empty legacy functions list, tools are active and the allow-list is
\* the one returned for a request listing the same names in tools.
C2_LegacyLikeTools ==
    (~Truthy(last_request.tools) /\ ~FlagSet(last_request)
        /\ Truthy(last_request.functions)) =>
        /\ (op = "should_enable_tools" => active)
        /\ (op = "get_tool_config" =>
              config = Some(ResolvedNames(AsTools(last_request.functions.list))))

\* C3: for a request with enable_tools true and no tools array, tools are
\* active and the allow-list is None, also when functions is present.
C3_EnableAll ==
    (FlagSet(last_request) /\ ~Truthy(last_request.tools)) =>
        /\ (op = "should_enable_tools" => active)
        /\ (op = "get_tool_config" => config = None)

\* enable_tools true together with a legacy functions list resolves to None
C3_Witness ==
    /\ op = "get_tool_config"
    /\ FlagSet(last_request)
    /\ last_request.tools = Some(<<>>)
    /\ Truthy(last_request.functions)
    /\ config = None

\* C4: when none of tools, enable_tools, functions is set (absent, empty
\* or false) should_enable_tools returns False and get_tool_config returns
\* an empty allow-list; should_enable_tools returns False for no other
\* request.
C4_Inactive ==
    /\ (op = "should_enable_tools" => (~active <=> NoneSet(last_request)))
    /\ (op = "get_tool_config" /\ NoneSet(last_request) => config = Some(<<>>))

\* an empty tools array, a false flag and an empty functions list: inactive
C4_Witness ==
    /\ op = "should_enable_tools"
    /\ last_request.tools = Some(<<>>)
    /\ last_request.enable_tools = "False"
    /\ last_request.functions = Some(<<>>)
    /\ ~active

\* C6: the name mapping is a round-trip bijection over the catalogue:
\* mapping the function name of a catalogue entry yields that entry's
\* identifier, and every name the mapper knows belongs to exactly one
\* catalogue entry.
C6_RoundTrip ==
    op = "_map_function_to_tool" =>
        /\ \A e \in Range(CLAUDE_TOOLS) : e.name = fname => mapped = e.type
        /\ mapped # "None" =>
             Cardinality({e \in Range(CLAUDE_TOOLS) : e.name = fname}) = 1

----------------------------------------------------------------------------
(* Properties of the registry (Spec) *)

RegistryOps == {"enable_tools", "disable_tools", "set_allowed_tools"}
ResolverOps == {"should_enable_tools", "get_tool_config"}

\* the ToolType members a list names by their value
Named(l) == Range(l) \cap ToolTypes

\* the ToolType members a list names by their value or by the function
\* name of their catalogue entry
Matched(l) ==
    Named(l) \cup {e.type : e \in {x \in Range(CLAUDE_TOOLS) : x.name \in Range(l)}}

\* C5: policy resolution never mutates the registry: enabled_tools changes
\* only in steps that are enable_tools, disable_tools or set_allowed_tools
\* calls, and every should_enable_tools / get_tool_config step leaves it
\* unchanged.
C5_ResolutionLeavesRegistry ==
    [][ /\ (enabled_tools' # enabled_tools => op' \in RegistryOps)
        /\ (op' \in ResolverOps => enabled_tools' = enabled_tools) ]_vars

\* a request listing read_file is resolved while the registry holds only
\* web_search, and the registry still holds only web_search
C5_Witness ==
    /\ op = "get_tool_config"
    /\ config = Some(<<"Read">>)
    /\ enabled_tools = {"web_search"}

\* C7 (as amended): set_allowed_tools with a list replaces enabled_tools
\* by exactly the ToolType members whose value is in the list, so that
\* get_enabled_tools then returns exactly the catalogue entries of those
\* members; a name that is no member value, a function name included, is
\* skipped; with the empty list get_enabled_tools returns [].
C7_AllowListReplaces ==
    /\ (op = "set_allowed_tools" /\ ~names.isNone) =>
          /\ enabled_tools = Named(names.list)
          /\ ~raised
    /\ (op = "get_enabled_tools" /\ after = "set_allowed_tools" /\ ~names.isNone) =>
          /\ listed = SelectSeq(CLAUDE_TOOLS, LAMBDA e : e.type \in Range(names.list))
          /\ (names.list = <<>> => listed = <<>>)

\* after set_allowed_tools(["read_file", "read"]) from a state with other
\* tools enabled, get_enabled_tools returns the read tool alone
C7_Witness ==
    /\ op = "get_enabled_tools"
    /\ after = "set_allowed_tools"
    /\ names = Some(<<"read_file", "read">>)
    /\ changed
    /\ listed = <<[type |-> "read", name |-> "read_file"]>>

\* C7 (as claimed): after set_allowed_tools with a list of names, external
\* or internal, get_enabled_tools returns exactly the catalogue tools named
\* in the list.
C7_AsClaimed ==
    (op = "get_enabled_tools" /\ after = "set_allowed_tools" /\ ~names.isNone) =>
        listed = SelectSeq(CLAUDE_TOOLS, LAMBDA e : e.type \in Matched(names.list))

\* C8: set_allowed_tools(None) followed by get_enabled_tools returns the
\* full catalogue, each tool once, in catalogue order; and in every state
\* get_enabled_tools returns a subsequence of the catalogue.
C8_CatalogueOrder ==
    /\ IsSubseq(get_enabled_tools(enabled_tools), CLAUDE_TOOLS)
    /\ (op = "get_enabled_tools" => IsSubseq(listed, CLAUDE_TOOLS))
    /\ (op = "get_enabled_tools" /\ after = "set_allowed_tools" /\ names.isNone) =>
          listed = CLAUDE_TOOLS

\* set_allowed_tools(None) changed the registry and get_enabled_tools then
\* returned the nine catalogue entries
C8_Witness ==
    /\ op = "get_enabled_tools"
    /\ after = "set_allowed_tools"
    /\ names.isNone
    /\ changed
    /\ Len(listed) = Len(CLAUDE_TOOLS)

\* C9 (as amended): enable_tools adds to enabled_tools every ToolType
\* member whose value is named and disable_tools removes every such member,
\* and nothing else changes; a name that is no member value (a function
\* name such as read_file included) never raises, is skipped, and the
\* remaining names of the call are still processed.
C9_EnableDisable ==
    [][ /\ (op' = "enable_tools" =>
              /\ enabled_tools' = enabled_tools \cup Named(names'.list)
              /\ ~raised')
        /\ (op' = "disable_tools" =>
              /\ enabled_tools' = enabled_tools \ Named(names'.list)
              /\ ~raised') ]_vars

\* enable_tools(["bogus", "read"]) skipped bogus and added read
C9_Witness ==
    /\ op = "enable_tools"
    /\ names = Some(<<"bogus", "read">>)
    /\ changed
    /\ ~raised
    /\ "read" \in enabled_tools

\* C9 (as claimed): after enable_tools every tool matched by a name given
\* as its function name or its identifier is enabled, after disable_tools
\* every such tool is disabled, and no call raises.
C9_AsClaimed ==
    /\ (op = "enable_tools" => Matched(names.list) \subseteq enabled_tools /\ ~raised)
    /\ (op = "disable_tools" => Matched(names.list) \cap enabled_tools = {} /\ ~raised)

----------------------------------------------------------------------------
(* Properties of the registry under concurrent calls (SpecConc) *)

\* enabled_tools after the call c has run alone from the set e
RunAlone(c, e) ==
    LET st == [enabled |-> e, raised |-> FALSE] IN
    CASE c.op = "enable_tools"  -> enable_tools(st, c.names.list).enabled
      [] c.op = "disable_tools" -> disable_tools(st, c.names.list).enabled
      [] OTHER                  -> set_allowed_tools(st, c.names).enabled

\* C10: concurrent registry calls are serialized: when two concurrent
\* calls set_allowed_tools(A) and set_allowed_tools(B) have both returned,
\* enabled_tools is what one of the two calls leaves when it runs alone
\* (exactly A's tools or exactly B's tools), never a mixture of both lists.
C10_Serialized ==
    ( /\ \A t \in Threads : pc[t] = "done"
      /\ \A t \in Threads : tcall[t].op = "set_allowed_tools" /\ ~tcall[t].names.isNone ) =>
        \/ enabled_tools = RunAlone(tcall[1], InitialEnabled)
        \/ enabled_tools = RunAlone(tcall[2], InitialEnabled)

----------------------------------------------------------------------------
(* tool_handler.py: the functions of one conversation turn.  A text is a   *)
(* string; Optional[str] is a record [isNone, text].                       *)

\* longest conversation passed to inject_tool_context
MaxMessages == 2

NoText == [isNone |-> TRUE, text |-> ""]
Text(t) == [isNone |-> FALSE, text |-> t]

\* (content or "")
OrEmpty(content) == IF content.isNone THEN "" ELSE content.text

RECURSIVE Join(_, _)
\* sep.join(lines)
Join(sep, lines) ==
    IF lines = <<>> THEN ""
    ELSE IF Len(lines) = 1 THEN lines[1]
    ELSE lines[1] \o sep \o Join(sep, Tail(lines))

RECURSIVE tool_descriptions(_)
\* the loop of inject_tool_context over tools: one line "- name: desc" for
\* each entry of type "function"
tool_descriptions(tools) ==
    IF tools = <<>> THEN <<>>
    ELSE LET tool == Head(tools) IN
         IF tool.type = "function"
         THEN <<"- " \o tool.name \o ": " \o tool.description>>
                  \o tool_descriptions(Tail(tools))
         ELSE tool_descriptions(Tail(tools))

\* tool_context = "\n\nAvailable tools:\n" + "\n".join(tool_descriptions)
tool_context(tools) ==
    "\n\nAvailable tools:\n" \o Join("\n", tool_descriptions(tools))

\* content of the system message inserted when there is none
Preamble(tools) ==
    "You have access to the following tools:" \o tool_context(tools)
        \o "\n\nWhen you need to use a tool, clearly indicate which tool and with what parameters."

\* index of the last message with role "system"
LastSystem(messages) ==
    CHOOSE i \in 1..Len(messages) :
        /\ messages[i].role = "system"
        /\ \A j \in (i + 1)..Len(messages) : messages[j].role # "system"

\* the message the loop `for msg in messages: if msg.role == "system"`
\* stops at
FirstSystem(messages) ==
    CHOOSE i \in 1..Len(messages) :
        /\ messages[i].role = "system"
        /\ \A j \in 1..(i - 1) : messages[j].role # "system"

\* ToolHandler.inject_tool_context
inject_tool_context(messages, tools) ==
    IF tools = <<>> THEN messages
    ELSE IF tool_descriptions(tools) = <<>> THEN messages
    ELSE IF \E i \in 1..Len(messages) : messages[i].role = "system"
    THEN LET i == FirstSystem(messages) IN
         [messages EXCEPT ![i].content = Text(OrEmpty(@) \o tool_context(tools))]
    ELSE <<[role |-> "system", content |-> Text(Preamble(tools))]>> \o messages

----------------------------------------------------------------------------
(* extract_tool_calls_from_message.  The content of a message is a list    *)
(* of segments; a segment records what the two patterns capture in it:     *)
(* bash, the groups of bash_pattern, and read, the groups of read_pattern. *)
(* No match spans two segments.                                            *)

\* longest content, in segments
MaxSegments == 3

\* plain text; a fenced bash block holding "ls -la"; the phrase "Let me
\* read the file /etc/hosts"; a fenced sh block holding " view file
\* notes.txt", in which both patterns match
Segments ==
    { [bash |-> <<>>,                       read |-> <<>>],
      [bash |-> <<"ls -la">>,               read |-> <<>>],
      [bash |-> <<>>,                       read |-> <<"/etc/hosts">>],
      [bash |-> <<" view file notes.txt">>, read |-> <<"notes.txt">>] }

\* command.strip() on the captured groups
strip(command) ==
    IF command = " view file notes.txt" THEN "view file notes.txt" ELSE command

RECURSIVE findall(_, _)
\* re.findall(pattern, content): the captured groups, left to right
findall(pattern, content) ==
    IF content = <<>> THEN <<>>
    ELSE (IF pattern = "bash_pattern" THEN Head(content).bash ELSE Head(content).read)
            \o findall(pattern, Tail(content))

\* json.dumps({key: value}) of a one-entry dict of strings
dumps_entry(key, value) == "{\"" \o key \o "\": \"" \o value \o "\"}"

\* ToolCall(id=f"call_{i}", type="function", function=FunctionCall(...))
ToolCall(i, name, key, value) ==
    [id |-> "call_" \o ToString(i), type |-> "function",
     function |-> [name |-> name, arguments |-> dumps_entry(key, value)]]

\* the second loop numbered from 0, as the first
read_start_zero(tool_calls) == 0

\* enumerate(read_matches, len(tool_calls)): the first index of the second loop
read_start(tool_calls) == Len(tool_calls)

\* ToolHandler.extract_tool_calls_from_message; message = [has, content]:
\* whether the key "content" is present, and its value.  Returns
\* [raised, value]: re.findall raises TypeError on a content of None.
extract_tool_calls_from_message(message) ==
    LET content == IF message.has THEN message.content ELSE Some(<<>>) IN
    IF content.isNone THEN [raised |-> TRUE, value |-> None]
    ELSE LET bash_matches == findall("bash_pattern", content.list)
             commands == [i \in 1..Len(bash_matches) |->
                            ToolCall(i - 1, "run_command", "command", strip(bash_matches[i]))]
             read_matches == findall("read_pattern", content.list)
             start == read_start(commands)
             reads == [i \in 1..Len(read_matches) |->
                            ToolCall(start + i - 1, "read_file", "path", read_matches[i])]
             tool_calls == commands \o reads
         IN [raised |-> FALSE,
             value |-> IF tool_calls # <<>> THEN Some(tool_calls) ELSE None]

----------------------------------------------------------------------------
(* format_tool_response.  A result is a record [type, value]: the Python   *)
(* type of the value and the value written as a text.                      *)

\* json.dumps(result)
json_dumps(result) ==
    CASE result.type = "str"      -> "\"" \o result.value \o "\""
      [] result.type = "NoneType" -> "null"
      [] result.type = "int"      -> result.value
      [] result.type = "dict"     -> "{\"files\": [\"a\", \"b\"]}"

\* ToolHandler.format_tool_response; `if error:` holds for a non-empty str
format_tool_response(tool_call_id, result, error) ==
    LET content ==
          IF ~error.isNone /\ error.text # ""
          THEN "Error executing tool: " \o error.text
          ELSE IF result.type # "str" THEN json_dumps(result) ELSE result.value
    IN [role |-> "tool", tool_call_id |-> tool_call_id, content |-> content]

----------------------------------------------------------------------------
(* Inputs of a conversation turn *)

\* results of a tool: two strings, None, a number, a dict
ToolResults ==
    { [type |-> "str", value |-> "ok"], [type |-> "str", value |-> ""],
      [type |-> "NoneType", value |-> "None"], [type |-> "int", value |-> "3"],
      [type |-> "dict", value |-> "{'files': ['a', 'b']}"] }

FormatArgs ==
    [tool_call_id : {"call_0", "call_1"}, result : ToolResults,
     error : {NoText, Text(""), Text("boom")}]

\* the tool_choice of a request: absent, "auto", or a pinned function
ToolChoices ==
    { [type |-> "absent", name |-> "None"], [type |-> "auto", name |-> "None"],
      [type |-> "function", name |-> "read_file"],
      [type |-> "function", name |-> "bogus"] }

\* requests that carry a tool_choice
PinnedRequests ==
    { [tools |-> r.tools, enable_tools |-> r.enable_tools, functions |-> r.functions,
       tool_choice |-> c] : r \in SharedRequests, c \in ToolChoices }

\* messages passed to extract_tool_calls_from_message: without the key
\* "content", with a content of None, with a text
ExtractArgs ==
    { [has |-> FALSE, content |-> None], [has |-> TRUE, content |-> None] }
    \cup { [has |-> TRUE, content |-> Some(c)] : c \in SeqsUpTo(Segments, MaxSegments) }

Messages ==
    [role : {"system", "user", "assistant"}, content : {NoText, Text("hi")}]

\* entries of the tools list passed to inject_tool_context
InjectToolDefs ==
    { [type |-> "function", name |-> "list_directory",
       description |-> "List contents of a directory"],
      [type |-> "function", name |-> "read_file",
       description |-> "Read the contents of a file"],
      [type |-> "retrieval", name |-> "None", description |-> "None"] }

InjectArgs ==
    [messages : SeqsUpTo(Messages, MaxMessages), tools : SeqsUpTo(InjectToolDefs, MaxTools)]

----------------------------------------------------------------------------
(* One conversation turn: a ToolHandler function is called on some         *)
(* arguments and returns *)

InitTurn ==
    /\ enabled_tools = InitialEnabled
    /\ op = "init"
    /\ after = "none"
    /\ names = None
    /\ last_request = NoRequest
    /\ active = FALSE
    /\ config = None
    /\ listed = <<>>
    /\ changed = FALSE
    /\ raised = FALSE
    /\ fname = "None"
    /\ mapped = "None"
    /\ IdleThreads
    /\ done = FALSE
    /\ ret = <<>>
    /\ \/ fn = "inject_tool_context" /\ arg \in InjectArgs
       \/ fn = "extract_tool_calls_from_message" /\ arg \in ExtractArgs
       \/ fn = "format_tool_response" /\ arg \in FormatArgs
       \/ fn = "resolve_policy" /\ arg \in PinnedRequests

\* the call returns r
Returning(r) ==
    /\ ~done
    /\ done' = TRUE
    /\ ret' = r
    /\ UNCHANGED <<fn, arg, enabled_tools, thrVars>>
    /\ UNCHANGED <<op, after, names, last_request, active, config, listed,
                   changed, raised, fname, mapped>>

\* tool_handler.inject_tool_context(arg.messages, arg.tools)
InjectToolContext ==
    /\ fn = "inject_tool_context"
    /\ Returning(inject_tool_context(arg.messages, arg.tools))

\* tool_handler.extract_tool_calls_from_message(arg)
ExtractToolCalls ==
    /\ fn = "extract_tool_calls_from_message"
    /\ Returning(extract_tool_calls_from_message(arg))

\* tool_handler.format_tool_response(arg.tool_call_id, arg.result, arg.error)
FormatToolResponse ==
    /\ fn = "format_tool_response"
    /\ Returning(format_tool_response(arg.tool_call_id, arg.result, arg.error))

\* policy resolution of the request arg: should_enable_tools(arg) and
\* get_tool_config(arg); neither raises
ResolvePolicy ==
    /\ fn = "resolve_policy"
    /\ Returning([raised |-> FALSE, active |-> should_enable_tools(arg),
                  allowed |-> get_tool_config(arg)])

NextTurn ==
    \/ InjectToolContext
    \/ ExtractToolCalls
    \/ FormatToolResponse
    \/ ResolvePolicy

\* the functions of a conversation turn, each on every argument
SpecTurn == InitTurn /\ [][NextTurn]_vars

----------------------------------------------------------------------------
(* Properties of the functions of a conversation turn (SpecTurn) *)

HasSystem(ms) == \E i \in 1..Len(ms) : ms[i].role = "system"

HasFunctionTool(ts) == \E i \in 1..Len(ts) : ts[i].type = "function"

\* out is ms with the block appended to the content of its first system
\* message and nothing else changed
AppendedToFirstSystem(ms, out, block) ==
    /\ Len(out) = Len(ms)
    /\ \E i \in 1..Len(ms) :
          /\ ms[i].role = "system"
          /\ \A j \in 1..(i - 1) : ms[j].role # "system"
          /\ out[i] = [role |-> "system", content |-> Text(OrEmpty(ms[i].content) \o block)]
          /\ \A j \in 1..Len(ms) : j # i => out[j] = ms[j]

\* out is ms behind one new system message that holds the block
PrependedSystem(ms, out, block) ==
    /\ Len(out) = Len(ms) + 1
    /\ out[1].role = "system"
    /\ out[1].content = Text("You have access to the following tools:" \o block
          \o "\n\nWhen you need to use a tool, clearly indicate which tool and with what parameters.")
    /\ \A j \in 1..Len(ms) : out[j + 1] = ms[j]

\* the block rendered for a tools list: a header and one line per tool
Block(ts) ==
    LET fs == SelectSeq(ts, LAMBDA t : t.type = "function")
    IN "\n\nAvailable tools:\n"
         \o Join("\n", [i \in 1..Len(fs) |-> "- " \o fs[i].name \o ": " \o fs[i].description])

\* what inject_tool_context returns when tools are to be injected
Injected(ms, out, ts) ==
    IF HasSystem(ms) THEN AppendedToFirstSystem(ms, out, Block(ts))
    ELSE PrependedSystem(ms, out, Block(ts))

\* C11 (as amended): inject never removes or reorders a message: with a
\* tools list that is empty or holds no entry of type "function" the
\* messages are returned unchanged; otherwise, with a system message the
\* block is appended to the content of the first system message only and no
\* message is added, and with no system message exactly one new system
\* message is prepended and the original messages follow in their order.
C11_Inject ==
    (done /\ fn = "inject_tool_context") =>
        IF HasFunctionTool(arg.tools)
        THEN Injected(arg.messages, ret, arg.tools)
        ELSE ret = arg.messages

\* two system messages and a function tool: the first system message got
\* the block, the second is as it was
C11_Witness ==
    /\ done /\ fn = "inject_tool_context"
    /\ Len(arg.messages) = 2
    /\ \A i \in 1..2 : arg.messages[i].role = "system"
    /\ HasFunctionTool(arg.tools)
    /\ ret[1] # arg.messages[1]
    /\ ret[2] = arg.messages[2]

\* C11 (as claimed): with an empty tools list the messages are returned
\* unchanged, and with any non-empty tools list the block is appended to
\* the first system message or one new system message is prepended.
C11_AsClaimed ==
    (done /\ fn = "inject_tool_context") =>
        IF arg.tools # <<>>
        THEN Injected(arg.messages, ret, arg.tools)
        ELSE ret = arg.messages

Extracted == done /\ fn = "extract_tool_calls_from_message"

\* C12: within one extraction call the candidates of the command blocks
\* come first, then those of the file-read phrases; the k-th candidate
\* (from 0) has identifier "call_k", and no two candidates share an
\* identifier, for any numbers of matches in the two passes.
C12_SequentialIds ==
    (Extracted /\ ~ret.raised /\ ~ret.value.isNone) =>
        LET cs == ret.value.list
            nb == Len(findall("bash_pattern", arg.content.list))
            nr == Len(findall("read_pattern", arg.content.list))
        IN /\ Len(cs) = nb + nr
           /\ \A k \in 1..Len(cs) :
                 /\ cs[k].id = "call_" \o ToString(k - 1)
                 /\ cs[k].function.name = (IF k <= nb THEN "run_command" ELSE "read_file")
           /\ \A j, k \in 1..Len(cs) : j # k => cs[j].id # cs[k].id

\* two command blocks and two file-read phrases: the first read candidate
\* is call_2
C12_Witness ==
    /\ Extracted /\ ~ret.raised /\ ~ret.value.isNone
    /\ Len(ret.value.list) = 4
    /\ ret.value.list[2].function.name = "run_command"
    /\ ret.value.list[3].function.name = "read_file"
    /\ ret.value.list[3].id = "call_2"

\* C13: extract never fails and always returns a list: for every message,
\* also one without a match and one whose content is absent or None, no
\* error is raised and the result is a (possibly empty) list.
C13_NeverFails ==
    Extracted => ~ret.raised /\ ~ret.value.isNone

\* C14: format returns a message with role "tool" and the given call id;
\* whenever error is not None, the empty string included, the content is
\* "Error executing tool: <error>" and result is ignored; otherwise the
\* content is result itself when it is a text and its JSON serialization
\* when it is not.
C14_Format ==
    (done /\ fn = "format_tool_response") =>
        /\ ret.role = "tool"
        /\ ret.tool_call_id = arg.tool_call_id
        /\ ret.content =
             IF ~arg.error.isNone THEN "Error executing tool: " \o arg.error.text
             ELSE IF arg.result.type = "str" THEN arg.result.value
             ELSE json_dumps(arg.result)

\* C15: a request whose tool_choice pins a function name that is absent
\* from the catalogue is surfaced as a policy violation: its resolution
\* does not complete with an ordinary decision.
C15_PinSurfaced ==
    ( /\ done /\ fn = "resolve_policy"
      /\ arg.tool_choice.type = "function"
      /\ arg.tool_choice.name \notin CatalogueNames ) => ret.raised

\* the catalogue function names a request lists in its tools array
RequestedCatalogueNames(r) ==
    {t.name : t \in {x \in Range(r.tools.list) : x.type = "function"}} \cap CatalogueNames

\* C16: every identifier get_tool_config puts in an allow-list is one the
\* registry recognizes: set_allowed_tools on that allow-list enables, for
\* each catalogue function name the request lists, the catalogue tool with
\* that function name, so that get_enabled_tools returns it.
C16_AllowListRecognized ==
    (op = "get_tool_config" /\ ~config.isNone) =>
        /\ \A i \in 1..Len(config.list) : ToolTypeLookup(config.list[i]).ok
        /\ LET tools == get_enabled_tools(set_allowed_tools(Self, config).enabled)
           IN \A n \in RequestedCatalogueNames(last_request) :
                 \E i \in 1..Len(tools) : tools[i].name = n

====
